---------------------------- MODULE Spec2Model ----------------------------
(***************************************************************************)
(* Model of the swap coordination core of boltz-backend:                   *)
(*   - MusigSigner (src/lib/service/cooperative/MusigSigner.ts): the       *)
(*     cooperative co-signer, signRefund and signReverseSwapClaim, run as  *)
(*     asynchronous calls that interleave with each other and with the     *)
(*     swap nursery at every await;                                        *)
(*   - Service (src/unnamed/part_001): the creation path, createSwap,      *)
(*     createReverseSwap and createChainToChainSwap.                       *)
(* The repositories, the nursery, the swap manager and the Lightning       *)
(* clients are collaborators whose code is not part of the sources; they   *)
(* are modelled from the specification and answer nondeterministically     *)
(* where their answer is an input of the code under study.                 *)
(***************************************************************************)
EXTENDS Integers, Sequences, FiniteSets, TLC

(***************************************************************************)
(* Bounds of the model.                                                    *)
(***************************************************************************)
\* Number of co-signing calls issued over a run.
MaxCalls == 2
\* Number of distinct 32-byte preimages a caller may supply.
NumPreimages == 2

\* Number of creation calls issued over a run.
MaxCreates == 2
\* Number of invoices a user may submit to createSwap.
NumInvoices == 2
\* Number of preimage hashes a user may submit to createChainToChainSwap.
NumHashes == 2
\* Largest amount a user may request.
MaxAmount == 3
\* Largest base fee and largest percentage fee the fee provider may quote.
MaxFee == 1
\* Block counts and block heights handed to the timeout functions.
MaxBlocks == 3

CallIds == 1..MaxCalls
Preimages == 1..NumPreimages
CreateIds == 1..MaxCreates
Invoices == 1..NumInvoices
Hashes == 1..NumHashes
Amounts == 1..MaxAmount
Fees == 0..MaxFee

(***************************************************************************)
(* Enums (lib/consts/Enums), as the specification lists them.              *)
(***************************************************************************)
FailedSwapUpdateEvents ==
    {"TransactionFailed", "InvoiceFailedToPay", "SwapExpired",
     "TransactionRefunded", "InvoiceExpired"}

SwapVersions == {"Legacy", "Taproot"}

\* Payment.PaymentStatus of LND, and the outcome "error" of a throwing RPC.
LndResponses == {"IN_FLIGHT", "SUCCEEDED", "FAILED", "error"}
\* checkPayStatus of CLN: a payment record, undefined, or a throwing RPC.
ClnResponses == {"record", "undefined", "error"}

\* SHA-256 on the modelled preimages: injective, and not the identity.
Sha256(p) == 2 * p + 1

(***************************************************************************)
(* Nursery state machine of one swap, from the specification's section 4.3 *)
(***************************************************************************)
SubmarineTransitions ==
    {<<"SwapCreated", "TransactionMempool">>,
     <<"SwapCreated", "TransactionFailed">>,
     <<"TransactionMempool", "TransactionConfirmed">>,
     <<"TransactionMempool", "InvoicePaid">>,
     <<"TransactionMempool", "InvoiceFailedToPay">>,
     <<"TransactionConfirmed", "InvoicePaid">>,
     <<"TransactionConfirmed", "InvoiceFailedToPay">>,
     <<"InvoicePaid", "TransactionClaimed">>,
     <<"SwapCreated", "SwapExpired">>,
     <<"TransactionMempool", "SwapExpired">>,
     <<"TransactionConfirmed", "SwapExpired">>,
     <<"TransactionFailed", "SwapExpired">>,
     <<"InvoiceFailedToPay", "SwapExpired">>,
     <<"InvoiceFailedToPay", "TransactionRefunded">>,
     <<"SwapExpired", "TransactionRefunded">>}

ReverseTransitions ==
    {<<"TransactionMempool", "TransactionConfirmed">>,
     <<"TransactionMempool", "InvoicePending">>,
     <<"TransactionConfirmed", "InvoicePending">>,
     <<"TransactionMempool", "SwapExpired">>,
     <<"TransactionConfirmed", "SwapExpired">>,
     <<"InvoicePending", "SwapExpired">>,
     <<"SwapExpired", "TransactionRefunded">>,
     <<"InvoiceSettled", "TransactionClaimed">>}

\* Statuses from which the observer of the user's claim settles the invoice.
ReverseSettleFrom == {"TransactionMempool", "TransactionConfirmed", "InvoicePending"}

VARIABLES
    swap,               \* the swap record in the database
    currency,           \* the currencies map entries of the swap's pair
    invoiceSettledWith, \* preimage the held invoice was settled with, 0: not settled
    submarineSwapLock,  \* holder of SwapNursery.submarineSwapLock, 0: free
    reverseSwapLock,    \* holder of SwapNursery.reverseSwapLock, 0: free
    calls               \* the co-signing calls: position, arguments, locals, result

signerVars ==
    <<swap, currency, invoiceSettledWith, submarineSwapLock, reverseSwapLock, calls>>

VARIABLES
    allowReverseSwaps,  \* Service.allowReverseSwaps
    swaps,              \* SwapRepository: the persisted submarine swaps
    reverseSwaps,       \* ReverseSwapRepository: the persisted reverse swaps
    chainSwaps,         \* ChainToChainSwapRepository: the persisted chain swaps
    issuedInvoices,     \* creation calls for which a Lightning invoice was issued
    lockups,            \* creation calls for which a lockup was broadcast
    creates             \* the creation calls: position, arguments, locals, result

createVars ==
    <<allowReverseSwaps, swaps, reverseSwaps, chainSwaps, issuedInvoices, lockups, creates>>

VARIABLES
    probe,              \* a function of the program applied to arguments: its result
    timeoutDeltas,      \* TimeoutDeltaProvider.timeoutDeltas: pair -> deltas in blocks
    configPairs,        \* config.pairs in memory: pair -> timeoutDelta in minutes
    configFile,         \* the configuration file on disk: pair -> timeoutDelta in minutes
    initialised,        \* the outcome of TimeoutDeltaProvider.init
    setTimeoutResult,   \* the last setTimeout call: its pair and its outcome
    timeoutCall         \* the getTimeout call under way: position, arguments, locals, result

providerVars ==
    <<timeoutDeltas, configPairs, configFile, initialised, setTimeoutResult, timeoutCall>>

timeoutVars == <<probe, providerVars>>

vars == <<signerVars, createVars, timeoutVars>>

IdleCall ==
    [op |-> "none", pc |-> "idle", preimage |-> 0, found |-> FALSE,
     status |-> "none", lnd |-> "notAsked", cln |-> "notAsked",
     wrotePreimage |-> FALSE, settled |-> "no", statusChanged |-> FALSE,
     result |-> "none"]

LightningConfigs ==
    {[defined |-> FALSE, lndClient |-> FALSE, clnClient |-> FALSE]}
    \cup {[defined |-> TRUE, lndClient |-> l, clnClient |-> c] : l, c \in BOOLEAN}

\* The preimage of the swap's preimageHash.
CorrectPreimage == CHOOSE p \in Preimages : Sha256(p) = swap.preimageHash

(***************************************************************************)
(* State after construction: one swap is in the database, a submarine swap *)
(* in SwapRepository or a reverse swap in ReverseSwapRepository, in the    *)
(* status its creation gives it; no co-signing call has been made.         *)
(***************************************************************************)
InitSigner ==
    /\ \E t \in {"Submarine", "ReverseSubmarine"}, v \in SwapVersions, inv \in BOOLEAN :
         swap = [type |-> t, version |-> v,
                 status |-> IF t = "Submarine" THEN "SwapCreated" ELSE "TransactionMempool",
                 preimageHash |-> Sha256(1), preimage |-> 0,
                 hasInvoice |-> IF t = "Submarine" THEN inv ELSE TRUE]
    /\ \E cc \in BOOLEAN, ln \in LightningConfigs :
         /\ swap.type = "ReverseSubmarine" =>
              cc /\ ln = [defined |-> TRUE, lndClient |-> TRUE, clnClient |-> FALSE]
         /\ currency = [chainClient |-> cc, lightning |-> ln]
    /\ invoiceSettledWith = 0
    /\ submarineSwapLock = 0
    /\ reverseSwapLock = 0
    /\ calls = [c \in CallIds |-> IdleCall]

\* A call is issued in the next free slot.
CanStart(c) ==
    /\ calls[c].pc = "idle"
    /\ IF c = 1 THEN TRUE ELSE calls[c - 1].pc # "idle"

Finish(call, res) == [call EXCEPT !.pc = "done", !.result = res]

(***************************************************************************)
(* MusigSigner.signRefund                                                  *)
(***************************************************************************)
\* createPartialSignature at the end of signRefund: a signature, or a throw.
RefundSign(call, signOk) ==
    Finish(call, IF signOk THEN "Signature" ELSE "SIGN_FAILED")

\* Mutation: the catch block around checkPayStatus swallows the error.
ClnErrorSwallowed == FALSE

\* What the catch block around checkPayStatus returns.
ClnErrorMeansPayment == TRUE

\* hasNonFailedLightningPayment from its second try block on, until the RPC.
RefundAskCln(call, signOk) ==
    IF currency.lightning.clnClient /\ swap.hasInvoice
    THEN [call EXCEPT !.pc = "checkPayStatus"]
    ELSE RefundSign(call, signOk)

\* hasNonFailedLightningPayment from its start, until the first RPC.
RefundAskLightning(call, signOk) ==
    IF swap.type = "Chain" THEN RefundSign(call, signOk)
    ELSE IF currency.lightning.lndClient
    THEN [call EXCEPT !.pc = "trackPayment"]
    ELSE RefundAskCln(call, signOk)

\* Mutation: isEligibleForRefund without its status condition.
RefundStatusEligibleAlways(status) == TRUE

\* The status half of isEligibleForRefund.
RefundStatusEligible(status) == status \in FailedSwapUpdateEvents

\* signRefund from the answer of SwapRepository.getSwap to its next await.
RefundAfterGetSwap(call, signOk) ==
    IF swap.type # "Submarine" THEN Finish(call, "SWAP_NOT_FOUND")
    ELSE LET c1 == [call EXCEPT !.found = TRUE, !.status = swap.status]
         IN  IF ~currency.chainClient THEN Finish(c1, "CURRENCY_NOT_UTXO_BASED")
             ELSE IF swap.version # "Taproot" \/ ~RefundStatusEligible(swap.status)
             THEN Finish(c1, "NOT_ELIGIBLE_FOR_COOPERATIVE_REFUND")
             ELSE IF ~currency.lightning.defined THEN RefundSign(c1, signOk)
             ELSE RefundAskLightning(c1, signOk)

SignRefund(c) ==
    /\ CanStart(c)
    /\ \E signOk \in BOOLEAN :
         calls' = [calls EXCEPT ![c] =
                     RefundAfterGetSwap([IdleCall EXCEPT !.op = "signRefund"], signOk)]
    /\ UNCHANGED <<timeoutVars, createVars, swap, currency, invoiceSettledWith, submarineSwapLock, reverseSwapLock>>

\* Mutation: a throwing trackPayment counts as a payment that has not failed.
LndErrorMeansPayment(resp) == resp # "FAILED"

\* Whether the answer of trackPayment makes the payment a non-failed one.
LndNonFailed(resp) == resp # "error" /\ resp # "FAILED"

\* The answer of LND's trackPayment arrives.
RefundTrackPayment(c) ==
    /\ calls[c].pc = "trackPayment"
    /\ \E resp \in LndResponses, signOk \in BOOLEAN :
         LET c1 == [calls[c] EXCEPT !.lnd = resp]
         IN  calls' = [calls EXCEPT ![c] =
                 IF LndNonFailed(resp)
                 THEN Finish(c1, "NOT_ELIGIBLE_FOR_COOPERATIVE_REFUND")
                 ELSE RefundAskCln(c1, signOk)]
    /\ UNCHANGED <<timeoutVars, createVars, swap, currency, invoiceSettledWith, submarineSwapLock, reverseSwapLock>>

\* Whether the answer of checkPayStatus makes the payment a non-failed one.
ClnNonFailed(resp) ==
    IF resp = "error" THEN ClnErrorMeansPayment ELSE resp # "undefined"

\* The answer of CLN's checkPayStatus arrives.
RefundCheckPayStatus(c) ==
    /\ calls[c].pc = "checkPayStatus"
    /\ \E resp \in ClnResponses, signOk \in BOOLEAN :
         LET c1 == [calls[c] EXCEPT !.cln = resp]
         IN  calls' = [calls EXCEPT ![c] =
                 IF ClnNonFailed(resp)
                 THEN Finish(c1, "NOT_ELIGIBLE_FOR_COOPERATIVE_REFUND")
                 ELSE RefundSign(c1, signOk)]
    /\ UNCHANGED <<timeoutVars, createVars, swap, currency, invoiceSettledWith, submarineSwapLock, reverseSwapLock>>

(***************************************************************************)
(* MusigSigner.signReverseSwapClaim                                        *)
(***************************************************************************)
ClaimStatuses == {"TransactionMempool", "TransactionConfirmed", "InvoiceSettled"}

\* Mutation: the eligibility condition without its version check.
ClaimEligibleAnyVersion(version, status) == status \in ClaimStatuses

\* The eligibility condition of signReverseSwapClaim.
ClaimEligible(version, status) ==
    version = "Taproot" /\ status \in ClaimStatuses

\* isPreimageValid of cooperative/Utils: sha256(preimage) == preimageHash.
isPreimageValid(hash, preimage) == Sha256(preimage) = hash

\* Mutation: signReverseSwapClaim without its isPreimageValid check.
ClaimAfterGetSwapUnchecked(call) ==
    IF swap.type # "ReverseSubmarine" THEN Finish(call, "SWAP_NOT_FOUND")
    ELSE LET c1 == [call EXCEPT !.found = TRUE, !.status = swap.status]
         IN  IF ~(swap.version = "Taproot" /\ swap.status \in ClaimStatuses)
             THEN Finish(c1, "NOT_ELIGIBLE_FOR_COOPERATIVE_CLAIM")
             ELSE [c1 EXCEPT !.pc = "setPreimage"]

\* signReverseSwapClaim from the answer of getReverseSwap to its next await,
\* the write of the preimage.
ClaimAfterGetSwap(call) ==
    IF swap.type # "ReverseSubmarine" THEN Finish(call, "SWAP_NOT_FOUND")
    ELSE LET c1 == [call EXCEPT !.found = TRUE, !.status = swap.status]
         IN  IF ~ClaimEligible(swap.version, swap.status)
             THEN Finish(c1, "NOT_ELIGIBLE_FOR_COOPERATIVE_CLAIM")
             ELSE IF ~isPreimageValid(swap.preimageHash, c1.preimage)
             THEN Finish(c1, "INCORRECT_PREIMAGE")
             ELSE [c1 EXCEPT !.pc = "setPreimage"]

SignReverseSwapClaim(c) ==
    /\ CanStart(c)
    /\ \E p \in Preimages :
         calls' = [calls EXCEPT ![c] =
                     ClaimAfterGetSwap([IdleCall EXCEPT !.op = "signReverseSwapClaim",
                                                        !.preimage = p])]
    /\ UNCHANGED <<timeoutVars, createVars, swap, currency, invoiceSettledWith, submarineSwapLock, reverseSwapLock>>

\* WrappedSwapRepository.setPreimage: the write succeeds, or throws.
ClaimSetPreimage(c) ==
    /\ calls[c].pc = "setPreimage"
    /\ \/ /\ swap' = [swap EXCEPT !.preimage = calls[c].preimage]
          /\ calls' = [calls EXCEPT ![c].pc = "acquire", ![c].wrotePreimage = TRUE]
       \/ /\ calls' = [calls EXCEPT ![c] = Finish(calls[c], "DATABASE_ERROR")]
          /\ UNCHANGED swap
    /\ UNCHANGED <<timeoutVars, createVars, currency, invoiceSettledWith, submarineSwapLock, reverseSwapLock>>

\* Mutation: the callback signs without settling the invoice.
ClaimNeverSettles(call) == FALSE

\* Whether the callback under reverseSwapLock settles the invoice first.
ClaimNeedsSettle(call) == call.status # "InvoiceSettled"

\* createPartialSignature at the end of signReverseSwapClaim.
ClaimSign(call, signOk) ==
    Finish(call, IF signOk THEN "Signature" ELSE "SIGN_FAILED")

\* nursery.lock.acquire(reverseSwapLock, ...): the callback starts once the
\* lock is free, and runs to its first await or, without one, to its end.
ClaimAcquire(c) ==
    /\ calls[c].pc = "acquire"
    /\ reverseSwapLock = 0
    /\ IF ClaimNeedsSettle(calls[c])
       THEN /\ reverseSwapLock' = c
            /\ calls' = [calls EXCEPT ![c].pc = "settle"]
       ELSE /\ \E signOk \in BOOLEAN :
                 calls' = [calls EXCEPT ![c] = ClaimSign(calls[c], signOk)]
            /\ UNCHANGED reverseSwapLock
    /\ UNCHANGED <<timeoutVars, createVars, swap, currency, invoiceSettledWith, submarineSwapLock>>

\* nursery.settleReverseSwapInvoice returns: the invoice is settled and the
\* swap set to InvoiceSettled, then the signature is made; or it throws.
\* Either way the callback ends and the lock is released.
ClaimSettle(c) ==
    /\ calls[c].pc = "settle"
    /\ reverseSwapLock = c
    /\ reverseSwapLock' = 0
    /\ \/ /\ invoiceSettledWith' = calls[c].preimage
          /\ swap' = [swap EXCEPT !.status = "InvoiceSettled",
                                  !.preimage = calls[c].preimage]
          /\ \E signOk \in BOOLEAN :
               calls' = [calls EXCEPT ![c] =
                   ClaimSign([calls[c] EXCEPT !.settled = "ok",
                                !.statusChanged = (swap.status # "InvoiceSettled")],
                             signOk)]
       \/ /\ calls' = [calls EXCEPT ![c] =
                   Finish([calls[c] EXCEPT !.settled = "failed"], "SETTLE_FAILED")]
          /\ UNCHANGED <<swap, invoiceSettledWith>>
    /\ UNCHANGED <<timeoutVars, createVars, currency, submarineSwapLock>>

(***************************************************************************)
(* SwapNursery: a status transition of the swap, under the kind's lock.    *)
(***************************************************************************)
NurserySubmarine ==
    /\ swap.type = "Submarine"
    /\ submarineSwapLock = 0
    /\ \E t \in SubmarineTransitions :
         /\ t[1] = swap.status
         /\ swap' = [swap EXCEPT !.status = t[2]]
    /\ UNCHANGED <<timeoutVars, createVars, currency, invoiceSettledWith, submarineSwapLock, reverseSwapLock, calls>>

NurseryReverse ==
    /\ swap.type = "ReverseSubmarine"
    /\ reverseSwapLock = 0
    /\ \E t \in ReverseTransitions :
         /\ t[1] = swap.status
         /\ swap' = [swap EXCEPT !.status = t[2]]
    /\ UNCHANGED <<timeoutVars, createVars, currency, invoiceSettledWith, submarineSwapLock, reverseSwapLock, calls>>

\* The observer sees the user's claim, takes the preimage from it and settles.
NurserySettle ==
    /\ swap.type = "ReverseSubmarine"
    /\ reverseSwapLock = 0
    /\ swap.status \in ReverseSettleFrom
    /\ swap' = [swap EXCEPT !.status = "InvoiceSettled", !.preimage = CorrectPreimage]
    /\ invoiceSettledWith' = CorrectPreimage
    /\ UNCHANGED <<timeoutVars, createVars, currency, submarineSwapLock, reverseSwapLock, calls>>

NextSigner ==
    \/ \E c \in CallIds : SignRefund(c)
    \/ \E c \in CallIds : RefundTrackPayment(c)
    \/ \E c \in CallIds : RefundCheckPayStatus(c)
    \/ \E c \in CallIds : SignReverseSwapClaim(c)
    \/ \E c \in CallIds : ClaimSetPreimage(c)
    \/ \E c \in CallIds : ClaimAcquire(c)
    \/ \E c \in CallIds : ClaimSettle(c)
    \/ NurserySubmarine
    \/ NurseryReverse
    \/ NurserySettle

(***************************************************************************)
(* Service: the creation path.                                             *)
(***************************************************************************)
\* RateProvider.pairs: the pairs, and the limits of those that have them.
NoLimits == [minimal |-> 0, maximal |-> 0]
Pairs ==
    [p \in {"BTC/BTC", "LTC/BTC"} |->
        [limits |-> IF p = "BTC/BTC" THEN [minimal |-> 2, maximal |-> 3] ELSE NoLimits]]

PairInputs == {"BTC/BTC", "LTC/BTC", "XMR/BTC"}
OrderSideInputs == {"buy", "Sell", "hold"}
\* The rates getRate may return, as fractions: one below and one above 1, both
\* with products that Math.floor rounds.
Rates == {[num |-> 1, den |-> 2], [num |-> 3, den |-> 2]}

\* The payment hash and the amount an invoice decodes to.
InvoiceHash(i) == (i + 1) \div 2
getInvoiceAmt(i) == i + 1
\* The length of a submitted preimage hash; 0 stands for a buffer that is not 32 bytes.
HashLength(h) == IF h = 0 THEN 31 ELSE 32
\* The payment hash of the invoice the Lightning node issues for reverse swap c.
IssuedHash(c) == NumHashes + NumInvoices + c

Floor(n, d) == n \div d
Ceil(n, d) == (n + d - 1) \div d
\* A whole number as a fraction.
Whole(n) == [num |-> n, den |-> 1]
toLowerCase(s) == IF s = "Sell" THEN "sell" ELSE s

IdleCreate ==
    [op |-> "none", pc |-> "idle", invoice |-> 0, hash |-> 0, amount |-> 0,
     rate |-> [num |-> 1, den |-> 1], baseFee |-> 0, percentageFee |-> 0,
     result |-> "none"]

InitCreate ==
    /\ allowReverseSwaps = TRUE
    /\ swaps = {}
    /\ reverseSwaps = {}
    /\ chainSwaps = {}
    /\ issuedInvoices = {}
    /\ lockups = {}
    /\ creates = [c \in CreateIds |-> IdleCreate]

CanCreate(c) ==
    /\ creates[c].pc = "idle"
    /\ IF c = 1 THEN TRUE ELSE creates[c - 1].pc # "idle"

\* A call that returned: its result is kept, its locals are gone.
Fail(call, res) == [IdleCreate EXCEPT !.op = call.op, !.pc = "done", !.result = res]

\* Service.getPair
getPair(pairId) == IF pairId \in DOMAIN Pairs THEN "ok" ELSE "PAIR_NOT_FOUND"

\* Service.getOrderSide
getOrderSide(side) ==
    CASE toLowerCase(side) = "buy" -> "BUY"
      [] toLowerCase(side) = "sell" -> "SELL"
      [] OTHER -> "ORDER_SIDE_NOT_FOUND"

\* Mutation: the amount is compared as given, whatever the side and the kind.
NormalizedAmountUnconverted(rate, amount, orderSide, type) == amount

\* The amount verifyAmount compares with the limits; amount is a fraction.
NormalizedAmount(rate, amount, orderSide, type) ==
    IF \/ type # "ReverseSubmarine" /\ orderSide = "BUY"
       \/ type = "ReverseSubmarine" /\ orderSide = "SELL"
    THEN Whole(Floor(amount.num * rate.num, amount.den * rate.den))
    ELSE amount

\* Service.verifyAmount: "ok", or the error it throws.
verifyAmount(pairId, rate, amount, orderSide, type) ==
    LET a == NormalizedAmount(rate, amount, orderSide, type)
        limits == Pairs[pairId].limits
    IN  IF limits # NoLimits
        THEN IF Floor(a.num, a.den) > limits.maximal THEN "EXCEED_MAXIMAL_AMOUNT"
             ELSE IF Ceil(a.num, a.den) < limits.minimal THEN "BENEATH_MINIMAL_AMOUNT"
             ELSE "ok"
        ELSE "PAIR_NOT_FOUND"

\* getPair, getOrderSide and verifyAmount, in the order the three creation
\* methods run them: "ok", or the first error thrown.
PairSideAmount(pairId, orderSide, rate, amount, type) ==
    IF getPair(pairId) # "ok" THEN getPair(pairId)
    ELSE IF getOrderSide(orderSide) = "ORDER_SIDE_NOT_FOUND" THEN "ORDER_SIDE_NOT_FOUND"
    ELSE verifyAmount(pairId, rate, Whole(amount), getOrderSide(orderSide), type)

(***************************************************************************)
(* Service.createSwap                                                      *)
(***************************************************************************)
\* createSwap from the answer of getSwapByInvoice to the call of getFees.
CreateSwapChecks(pairId, orderSide, invoice, rate) ==
    IF \E s \in swaps : s.invoice = invoice THEN "SWAP_WITH_INVOICE_EXISTS"
    ELSE PairSideAmount(pairId, orderSide, rate, getInvoiceAmt(invoice), "Submarine")

CreateSwap(c) ==
    /\ CanCreate(c)
    /\ \E pairId \in PairInputs, orderSide \in OrderSideInputs,
          invoice \in Invoices, rate \in Rates :
         LET call == [IdleCreate EXCEPT !.op = "createSwap", !.invoice = invoice]
             err == CreateSwapChecks(pairId, orderSide, invoice, rate)
         IN  creates' = [creates EXCEPT ![c] =
                 IF err # "ok" THEN Fail(call, err) ELSE [call EXCEPT !.pc = "getFees"]]
    /\ UNCHANGED <<timeoutVars, signerVars, allowReverseSwaps, swaps, reverseSwaps, chainSwaps, issuedInvoices, lockups>>

\* feeProvider.getFees answers.
CreateSwapFees(c) ==
    /\ creates[c].op = "createSwap" /\ creates[c].pc = "getFees"
    /\ creates' = [creates EXCEPT ![c].pc = "manager"]
    /\ UNCHANGED <<timeoutVars, signerVars, allowReverseSwaps, swaps, reverseSwaps, chainSwaps, issuedInvoices, lockups>>

\* swapManager.createSwap answers with the script, or throws.
CreateSwapManager(c) ==
    /\ creates[c].op = "createSwap" /\ creates[c].pc = "manager"
    /\ \/ creates' = [creates EXCEPT ![c].pc = "persist"]
       \/ creates' = [creates EXCEPT ![c] = Fail(creates[c], "SWAP_MANAGER_ERROR")]
    /\ UNCHANGED <<timeoutVars, signerVars, allowReverseSwaps, swaps, reverseSwaps, chainSwaps, issuedInvoices, lockups>>

\* The record createSwap hands to swapRepository.addSwap.
SwapRecord(c) ==
    [id |-> c, invoice |-> creates[c].invoice,
     preimageHash |-> InvoiceHash(creates[c].invoice)]

\* swapRepository.addSwap: the table takes no second row with the same invoice
\* or preimage hash; any write may fail.
CreateSwapPersist(c) ==
    /\ creates[c].op = "createSwap" /\ creates[c].pc = "persist"
    /\ \/ /\ \A s \in swaps : /\ s.invoice # SwapRecord(c).invoice
                              /\ s.preimageHash # SwapRecord(c).preimageHash
          /\ swaps' = swaps \cup {SwapRecord(c)}
          /\ creates' = [creates EXCEPT ![c] = Fail(creates[c], "created")]
       \/ /\ creates' = [creates EXCEPT ![c] = Fail(creates[c], "DATABASE_ERROR")]
          /\ UNCHANGED swaps
    /\ UNCHANGED <<timeoutVars, signerVars, allowReverseSwaps, reverseSwaps, chainSwaps, issuedInvoices, lockups>>

(***************************************************************************)
(* Service.createReverseSwap                                               *)
(***************************************************************************)
\* createReverseSwap from its start to the call of getFees.
CreateReverseSwapChecks(pairId, orderSide, invoiceAmount, rate) ==
    IF ~allowReverseSwaps THEN "REVERSE_SWAPS_DISABLED"
    ELSE PairSideAmount(pairId, orderSide, rate, invoiceAmount, "ReverseSubmarine")

CreateReverseSwap(c) ==
    /\ CanCreate(c)
    /\ \E pairId \in PairInputs, orderSide \in OrderSideInputs,
          invoiceAmount \in Amounts, rate \in Rates :
         LET call == [IdleCreate EXCEPT !.op = "createReverseSwap",
                                        !.amount = invoiceAmount, !.rate = rate]
             err == CreateReverseSwapChecks(pairId, orderSide, invoiceAmount, rate)
         IN  creates' = [creates EXCEPT ![c] =
                 IF err # "ok" THEN Fail(call, err) ELSE [call EXCEPT !.pc = "getFees"]]
    /\ UNCHANGED <<timeoutVars, signerVars, allowReverseSwaps, swaps, reverseSwaps, chainSwaps, issuedInvoices, lockups>>

\* onchainAmount of createReverseSwap.
OnchainAmount(invoiceAmount, rate, baseFee, percentageFee) ==
    Floor(invoiceAmount * rate.num, rate.den) - (baseFee + percentageFee)

\* Mutation: the guard lets an onchain amount of zero pass.
OnchainAmountNegative(onchainAmount) == onchainAmount < 0

\* The guard that throws ONCHAIN_AMOUNT_TOO_LOW.
OnchainAmountTooLow(onchainAmount) == onchainAmount < 1

\* feeProvider.getFees answers; the onchain amount is computed and checked.
CreateReverseSwapFees(c) ==
    /\ creates[c].op = "createReverseSwap" /\ creates[c].pc = "getFees"
    /\ \E baseFee \in Fees, percentageFee \in Fees :
         LET call == [creates[c] EXCEPT !.baseFee = baseFee,
                                        !.percentageFee = percentageFee]
         IN  creates' = [creates EXCEPT ![c] =
                 IF OnchainAmountTooLow(
                        OnchainAmount(call.amount, call.rate, baseFee, percentageFee))
                 THEN [call EXCEPT !.pc = "done", !.result = "ONCHAIN_AMOUNT_TOO_LOW"]
                 ELSE [call EXCEPT !.pc = "manager"]]
    /\ UNCHANGED <<timeoutVars, signerVars, allowReverseSwaps, swaps, reverseSwaps, chainSwaps, issuedInvoices, lockups>>

\* swapManager.createReverseSwap: it issues the invoice and broadcasts the
\* lockup transaction, or throws having done neither.
CreateReverseSwapManager(c) ==
    /\ creates[c].op = "createReverseSwap" /\ creates[c].pc = "manager"
    /\ \/ /\ issuedInvoices' = issuedInvoices \cup {c}
          /\ lockups' = lockups \cup {c}
          /\ creates' = [creates EXCEPT ![c].pc = "persist"]
       \/ /\ creates' = [creates EXCEPT ![c] = Fail(creates[c], "SWAP_MANAGER_ERROR")]
          /\ UNCHANGED <<issuedInvoices, lockups>>
    /\ UNCHANGED <<timeoutVars, signerVars, allowReverseSwaps, swaps, reverseSwaps, chainSwaps>>

\* The record createReverseSwap hands to reverseSwapRepository.addReverseSwap,
\* with the amounts it was computed from.
ReverseSwapRecord(c) ==
    [id |-> c, preimageHash |-> IssuedHash(c),
     onchainAmount |-> OnchainAmount(creates[c].amount, creates[c].rate,
                                     creates[c].baseFee, creates[c].percentageFee),
     fee |-> creates[c].percentageFee,
     status |-> "TransactionMempool",
     invoiceAmount |-> creates[c].amount, rate |-> creates[c].rate,
     baseFee |-> creates[c].baseFee]

\* reverseSwapRepository.addReverseSwap: the write succeeds, or throws.
CreateReverseSwapPersist(c) ==
    /\ creates[c].op = "createReverseSwap" /\ creates[c].pc = "persist"
    /\ \/ /\ reverseSwaps' = reverseSwaps \cup {ReverseSwapRecord(c)}
          /\ creates' = [creates EXCEPT ![c] = Fail(creates[c], "created")]
       \/ /\ creates' = [creates EXCEPT ![c] = Fail(creates[c], "DATABASE_ERROR")]
          /\ UNCHANGED reverseSwaps
    /\ UNCHANGED <<timeoutVars, signerVars, allowReverseSwaps, swaps, chainSwaps, issuedInvoices, lockups>>

(***************************************************************************)
(* Service.createChainToChainSwap                                          *)
(***************************************************************************)
\* createChainToChainSwap from its start to the call of getFees.
CreateChainToChainSwapChecks(pairId, orderSide, amount, preimageHash, rate) ==
    IF HashLength(preimageHash) # 32 THEN "INVALID_PREIMAGE_HASH"
    ELSE IF \E s \in chainSwaps : s.preimageHash = preimageHash
    THEN "SWAP_WITH_PREIMAGE_EXISTS"
    ELSE PairSideAmount(pairId, orderSide, rate, amount, "ChainToChain")

CreateChainToChainSwap(c) ==
    /\ CanCreate(c)
    /\ \E pairId \in PairInputs, orderSide \in OrderSideInputs, amount \in Amounts,
          preimageHash \in Hashes \cup {0}, rate \in Rates :
         LET call == [IdleCreate EXCEPT !.op = "createChainToChainSwap",
                                        !.amount = amount, !.hash = preimageHash]
             err == CreateChainToChainSwapChecks(pairId, orderSide, amount,
                                                 preimageHash, rate)
         IN  creates' = [creates EXCEPT ![c] =
                 IF err # "ok" THEN Fail(call, err) ELSE [call EXCEPT !.pc = "getFees"]]
    /\ UNCHANGED <<timeoutVars, signerVars, allowReverseSwaps, swaps, reverseSwaps, chainSwaps, issuedInvoices, lockups>>

\* feeProvider.getFees answers.
CreateChainToChainSwapFees(c) ==
    /\ creates[c].op = "createChainToChainSwap" /\ creates[c].pc = "getFees"
    /\ creates' = [creates EXCEPT ![c].pc = "getBalance"]
    /\ UNCHANGED <<timeoutVars, signerVars, allowReverseSwaps, swaps, reverseSwaps, chainSwaps, issuedInvoices, lockups>>

\* The guard that throws NOT_ENOUGH_FUNDS.
NotEnoughFunds(sendingWalletBalance, amount) == sendingWalletBalance <= amount

\* The sending wallet's getBalance answers.
CreateChainToChainSwapBalance(c) ==
    /\ creates[c].op = "createChainToChainSwap" /\ creates[c].pc = "getBalance"
    /\ \E totalBalance \in 0..(MaxAmount + 1) :
         creates' = [creates EXCEPT ![c] =
             IF NotEnoughFunds(totalBalance, creates[c].amount)
             THEN Fail(creates[c], "NOT_ENOUGH_FUNDS")
             ELSE [creates[c] EXCEPT !.pc = "manager", !.amount = 0]]
    /\ UNCHANGED <<timeoutVars, signerVars, allowReverseSwaps, swaps, reverseSwaps, chainSwaps, issuedInvoices, lockups>>

\* swapManager.createChainToChainSwap answers with the scripts, or throws.
CreateChainToChainSwapManager(c) ==
    /\ creates[c].op = "createChainToChainSwap" /\ creates[c].pc = "manager"
    /\ \/ creates' = [creates EXCEPT ![c].pc = "persist"]
       \/ creates' = [creates EXCEPT ![c] = Fail(creates[c], "SWAP_MANAGER_ERROR")]
    /\ UNCHANGED <<timeoutVars, signerVars, allowReverseSwaps, swaps, reverseSwaps, chainSwaps, issuedInvoices, lockups>>

\* The record createChainToChainSwap hands to addChainToChainSwap.
ChainSwapRecord(c) ==
    [id |-> c, preimageHash |-> creates[c].hash, status |-> "TransactionWaiting"]

\* chainToChainSwapRepository.addChainToChainSwap: the table takes no second
\* row with the same preimage hash; any write may fail.
CreateChainToChainSwapPersist(c) ==
    /\ creates[c].op = "createChainToChainSwap" /\ creates[c].pc = "persist"
    /\ \/ /\ \A s \in chainSwaps : s.preimageHash # ChainSwapRecord(c).preimageHash
          /\ chainSwaps' = chainSwaps \cup {ChainSwapRecord(c)}
          /\ creates' = [creates EXCEPT ![c] = Fail(creates[c], "created")]
       \/ /\ creates' = [creates EXCEPT ![c] = Fail(creates[c], "DATABASE_ERROR")]
          /\ UNCHANGED chainSwaps
    /\ UNCHANGED <<timeoutVars, signerVars, allowReverseSwaps, swaps, reverseSwaps, issuedInvoices, lockups>>

\* The operator switches reverse swaps on or off.
SetAllowReverseSwaps ==
    /\ allowReverseSwaps' = ~allowReverseSwaps
    /\ UNCHANGED <<timeoutVars, signerVars, swaps, reverseSwaps, chainSwaps, issuedInvoices, lockups, creates>>

NextCreate ==
    \/ \E c \in CreateIds : CreateSwap(c)
    \/ \E c \in CreateIds : CreateSwapFees(c)
    \/ \E c \in CreateIds : CreateSwapManager(c)
    \/ \E c \in CreateIds : CreateSwapPersist(c)
    \/ \E c \in CreateIds : CreateReverseSwap(c)
    \/ \E c \in CreateIds : CreateReverseSwapFees(c)
    \/ \E c \in CreateIds : CreateReverseSwapManager(c)
    \/ \E c \in CreateIds : CreateReverseSwapPersist(c)
    \/ \E c \in CreateIds : CreateChainToChainSwap(c)
    \/ \E c \in CreateIds : CreateChainToChainSwapFees(c)
    \/ \E c \in CreateIds : CreateChainToChainSwapBalance(c)
    \/ \E c \in CreateIds : CreateChainToChainSwapManager(c)
    \/ \E c \in CreateIds : CreateChainToChainSwapPersist(c)
    \/ SetAllowReverseSwaps

(***************************************************************************)
(* TimeoutDeltaProvider: block times and IEEE-754 double arithmetic.       *)
(*                                                                         *)
(* JavaScript numbers are doubles.  A natural number of any size is a      *)
(* sequence of bits, lowest first, without leading zeros; a positive       *)
(* double is a mantissa m of at most 53 bits and an exponent e: m * 2^e.   *)
(***************************************************************************)
RECURSIVE BitsOf(_)
BitsOf(n) == IF n = 0 THEN <<>> ELSE <<n % 2>> \o BitsOf(n \div 2)

\* Bits are added eight at a time.
PowersOfTwo == <<1, 2, 4, 8, 16, 32, 64, 128>>

Byte(x, k) ==
    LET bit(i) == IF 8 * k + i <= Len(x) THEN x[8 * k + i] ELSE 0
    IN  bit(1) + 2 * bit(2) + 4 * bit(3) + 8 * bit(4)
            + 16 * bit(5) + 32 * bit(6) + 64 * bit(7) + 128 * bit(8)

RECURSIVE AddBytes(_, _, _, _, _)
AddBytes(x, y, k, count, carry) ==
    IF k = count THEN <<>>
    ELSE LET t == Byte(x, k) + Byte(y, k) + carry
         IN  <<t % 256>> \o AddBytes(x, y, k + 1, count, t \div 256)

AddBits(x, y) ==
    LET n == IF Len(x) > Len(y) THEN Len(x) ELSE Len(y)
        bytes == AddBytes(x, y, 0, n \div 8 + 1, 0)
        bit(i) == (bytes[(i - 1) \div 8 + 1] \div PowersOfTwo[((i - 1) % 8) + 1]) % 2
    IN  IF bit(n + 1) = 1 THEN [i \in 1..(n + 1) |-> bit(i)] ELSE [i \in 1..n |-> bit(i)]

ShiftLeft(x, k) == IF x = <<>> THEN <<>> ELSE [i \in 1..k |-> 0] \o x

\* The bits x times the natural number n.
RECURSIVE MulSmall(_, _)
MulSmall(x, n) ==
    IF n = 0 THEN <<>>
    ELSE AddBits(IF n % 2 = 1 THEN x ELSE <<>>, ShiftLeft(MulSmall(x, n \div 2), 1))

LeqBits(x, y) ==
    IF Len(x) # Len(y) THEN Len(x) < Len(y)
    ELSE IF x = y THEN TRUE
    ELSE LET i == CHOOSE i \in 1..Len(x) :
                      x[i] # y[i] /\ \A j \in (i + 1)..Len(x) : x[j] = y[j]
         IN  x[i] < y[i]

\* Round to nearest, ties to even, to a mantissa of 53 bits.
RoundToDouble(p, e) ==
    IF Len(p) <= 53 THEN [m |-> p, e |-> e]
    ELSE LET s == Len(p) - 53
             kept == SubSeq(p, s + 1, Len(p))
             sticky == \E i \in 1..(s - 1) : p[i] = 1
             up == p[s] = 1 /\ (sticky \/ kept[1] = 1)
         IN  [m |-> IF up THEN AddBits(kept, <<1>>) ELSE kept, e |-> e + s]

\* TimeoutDeltaProvider.blockTimes, in tenths of a minute.
blockTimes == [BTC |-> 100, LTC |-> 25, ETH |-> 2, LBTC |-> 10]

Symbols == {"BTC", "LTC", "ETH", "LBTC", "USDT"}

\* TimeoutDeltaProvider.getBlockTime, in tenths of a minute.
getBlockTime(symbol) ==
    IF symbol \in DOMAIN blockTimes THEN blockTimes[symbol] ELSE blockTimes["ETH"]

\* The double nearest to 0.2: 0x1999999999999A * 2^-55.
DoubleFifth ==
    [m |-> <<0, 1, 0, 1>> \o [i \in 1..48 |-> IF i % 4 \in {0, 1} THEN 1 ELSE 0] \o <<1>>,
     e |-> 0 - 55]

\* The double a block time is held as: 10, 2.5 and 1 are exact, 0.2 is not.
DoubleBlockTime(symbol) ==
    CASE getBlockTime(symbol) = 100 -> [m |-> BitsOf(5), e |-> 1]
      [] getBlockTime(symbol) = 25 -> [m |-> BitsOf(5), e |-> 0 - 1]
      [] getBlockTime(symbol) = 10 -> [m |-> BitsOf(1), e |-> 0]
      [] getBlockTime(symbol) = 2 -> DoubleFifth

\* n * d in doubles, for a natural number n.
DoubleProduct(n, d) == RoundToDouble(MulSmall(d.m, n), d.e)

\* x / y as the fraction num / den of two natural numbers in bits.
QuotientNum(x, y) == ShiftLeft(x.m, IF x.e > y.e THEN x.e - y.e ELSE 0)
QuotientDen(x, y) == ShiftLeft(y.m, IF y.e > x.e THEN y.e - x.e ELSE 0)

\* floor(num / den), looked for next to the estimate.
FloorBits(num, den, estimate) ==
    CHOOSE n \in {k \in (estimate - 1)..(estimate + 1) : k >= 0} :
        /\ LeqBits(MulSmall(den, n), num)
        /\ ~LeqBits(MulSmall(den, n + 1), num)

\* Math.ceil(x / y) for doubles x >= 0, y > 0: the quotient is rounded to the
\* nearest double first, which is the whole number below it when the quotient
\* exceeds that number by at most half the gap between doubles there.
CeilDoubleQuotient(x, y, estimate) ==
    IF x.m = <<>> THEN 0
    ELSE LET num == QuotientNum(x, y)
             den == QuotientDen(x, y)
             n == FloorBits(num, den, estimate)
             s == 54 - Len(BitsOf(n))
         IN  IF num = MulSmall(den, n) THEN n
             ELSE IF n >= 1 /\ LeqBits(ShiftLeft(num, s),
                                       AddBits(den, ShiftLeft(MulSmall(den, n), s)))
             THEN n
             ELSE n + 1

\* Math.floor(x / y) for doubles x >= 0, y > 0: the rounded quotient is the
\* whole number above when the quotient is below it by at most half the gap.
FloorDoubleQuotient(x, y, estimate) ==
    IF x.m = <<>> THEN 0
    ELSE LET num == QuotientNum(x, y)
             den == QuotientDen(x, y)
             n == FloorBits(num, den, estimate)
             s == IF n = 0 THEN 54 ELSE 54 - Len(BitsOf(n))
         IN  IF num = MulSmall(den, n) THEN n
             ELSE IF LeqBits(ShiftLeft(MulSmall(den, n + 1), s),
                             AddBits(den, ShiftLeft(num, s)))
             THEN n + 1
             ELSE n

\* TimeoutDeltaProvider.convertBlocks
convertBlocks(fromSymbol, toSymbol, blocks) ==
    LET from == DoubleBlockTime(fromSymbol)
        to == DoubleBlockTime(toSymbol)
        size == IF blocks < 0 THEN 0 - blocks ELSE blocks
        estimate == (size * getBlockTime(fromSymbol)) \div getBlockTime(toSymbol)
    IN  IF blocks >= 0
        THEN CeilDoubleQuotient(DoubleProduct(size, from), to, estimate)
        ELSE 0 - FloorDoubleQuotient(DoubleProduct(size, from), to, estimate)

(***************************************************************************)
(* Functions of the program applied to arguments.                          *)
(***************************************************************************)
NoProbe == [fn |-> "none"]

\* A timeoutDelta of the configuration: absent, a number of minutes (legacy), or
\* a table of minutes.
Undefined == [kind |-> "undefined"]
Legacy(m) == [kind |-> "number", minutes |-> m]
Table(r, lo, hi) ==
    [kind |-> "table", reverse |-> r, swapMinimal |-> lo, swapMaximal |-> hi]

\* config.pairs, in the order of the configuration.
ConfigPairs == <<"BTC/BTC", "LTC/BTC">>
ConfigPairIds == {ConfigPairs[i] : i \in 1..Len(ConfigPairs)}

NoDeltas == [defined |-> FALSE]
NoSetTimeout == [pairId |-> "", result |-> "none"]
NoBlocks == [reverse |-> 0, swapMinimal |-> 0, swapMaximal |-> 0]
NoResult == [kind |-> "none"]
IdleTimeout ==
    [pc |-> "idle", pairId |-> "", orderSide |-> "", isReverse |-> FALSE,
     invoice |-> FALSE, timeouts |-> NoDeltas, chain |-> "", lightning |-> "",
     chainTimeout |-> NoBlocks, lightningTimeout |-> NoBlocks,
     routeTimeLock |-> 0, blocks |-> 0, result |-> NoResult]

TimeoutPairInputs == ConfigPairIds \cup {"ETH/BTC"}

\* The provider as constructed, nothing converted yet.
InitProviderState ==
    /\ timeoutDeltas = [p \in TimeoutPairInputs |-> NoDeltas]
    /\ configFile = configPairs
    /\ initialised = "none"
    /\ setTimeoutResult = NoSetTimeout
    /\ timeoutCall = IdleTimeout

InitTimeout ==
    /\ probe = NoProbe
    /\ configPairs = [p \in ConfigPairIds |-> Table(60, 60, 70)]
    /\ InitProviderState

\* The amounts handed to verifyAmount, in halves.
AmountInputs == {[num |-> n, den |-> 2] : n \in 1..(2 * MaxAmount + 2)}

\* Service.verifyAmount applied to a pair, a rate, an amount, a side and a kind.
VerifyAmount ==
    /\ probe = NoProbe
    /\ \E pairId \in DOMAIN Pairs, rate \in Rates, amount \in AmountInputs,
          orderSide \in {"BUY", "SELL"},
          type \in {"Submarine", "ReverseSubmarine", "ChainToChain"} :
         probe' = [fn |-> "verifyAmount", pairId |-> pairId, rate |-> rate,
                   amount |-> amount, orderSide |-> orderSide, type |-> type,
                   result |-> verifyAmount(pairId, rate, amount, orderSide, type)]
    /\ UNCHANGED <<signerVars, createVars, providerVars>>

NextVerifyAmount ==
    \/ VerifyAmount

BlockCounts == 0..MaxBlocks

\* TimeoutDeltaProvider.convertBlocks applied to two symbols and a block count.
ConvertBlocks ==
    /\ probe = NoProbe
    /\ \E fromSymbol \in Symbols, toSymbol \in Symbols, blocks \in BlockCounts :
         probe' = [fn |-> "convertBlocks", fromSymbol |-> fromSymbol,
                   toSymbol |-> toSymbol, blocks |-> blocks,
                   result |-> convertBlocks(fromSymbol, toSymbol, blocks)]
    /\ UNCHANGED <<signerVars, createVars, providerVars>>

\* Mutation: the safety margin of two blocks is left out.
getCltvLimitNoMargin(chainSymbol, lightningSymbol, timeoutBlockHeight, currentBlock) ==
    convertBlocks(chainSymbol, lightningSymbol, timeoutBlockHeight - currentBlock)

\* TimeoutDeltaProvider.getCltvLimit, from the block height the chain reports.
getCltvLimit(chainSymbol, lightningSymbol, timeoutBlockHeight, currentBlock) ==
    convertBlocks(chainSymbol, lightningSymbol, timeoutBlockHeight - currentBlock) - 2

\* getCltvLimit applied to a swap of some pair and side, at some block height.
GetCltvLimit ==
    /\ probe = NoProbe
    /\ \E chainSymbol \in Symbols, lightningSymbol \in Symbols,
          timeoutBlockHeight \in BlockCounts, currentBlock \in BlockCounts :
         probe' = [fn |-> "getCltvLimit", chainSymbol |-> chainSymbol,
                   lightningSymbol |-> lightningSymbol,
                   timeoutBlockHeight |-> timeoutBlockHeight,
                   currentBlock |-> currentBlock,
                   result |-> getCltvLimit(chainSymbol, lightningSymbol,
                                           timeoutBlockHeight, currentBlock)]
    /\ UNCHANGED <<signerVars, createVars, providerVars>>

NextConvert ==
    \/ ConvertBlocks
    \/ GetCltvLimit

\* MusigSigner.hasNonFailedLightningPayment, given the answers the clients
\* give when they are asked: its result, and which clients it asked.
hasNonFailedLightningPayment(lightningCurrency, swapType, hasInvoice, lndResp, clnResp) ==
    LET lnd == IF lightningCurrency.lndClient THEN lndResp ELSE "notAsked"
    IN  IF swapType = "Chain"
            THEN [result |-> FALSE, lnd |-> "notAsked", cln |-> "notAsked"]
        ELSE IF lightningCurrency.lndClient /\ LndNonFailed(lndResp)
            THEN [result |-> TRUE, lnd |-> lnd, cln |-> "notAsked"]
        ELSE IF lightningCurrency.clnClient /\ hasInvoice
            THEN [result |-> ClnNonFailed(clnResp), lnd |-> lnd, cln |-> clnResp]
        ELSE [result |-> FALSE, lnd |-> lnd, cln |-> "notAsked"]

\* MusigSigner.isEligibleForRefund: && and || ask no further once decided.
isEligibleForRefund(status, lightningCurrency, swapType, hasInvoice, lndResp, clnResp) ==
    LET payment == hasNonFailedLightningPayment(lightningCurrency, swapType, hasInvoice,
                                                lndResp, clnResp)
    IN  IF ~RefundStatusEligible(status)
            THEN [eligible |-> FALSE, lnd |-> "notAsked", cln |-> "notAsked"]
        ELSE IF ~lightningCurrency.defined
            THEN [eligible |-> TRUE, lnd |-> "notAsked", cln |-> "notAsked"]
        ELSE [eligible |-> ~payment.result, lnd |-> payment.lnd, cln |-> payment.cln]

\* The statuses of the swaps handed to isEligibleForRefund.
EligibilityStatuses ==
    FailedSwapUpdateEvents \cup {"SwapCreated", "TransactionMempool", "InvoicePaid"}

\* isEligibleForRefund applied to a submarine or a chain swap.
IsEligibleForRefund ==
    /\ probe = NoProbe
    /\ \E status \in EligibilityStatuses, lightningCurrency \in LightningConfigs,
          swapType \in {"Submarine", "Chain"}, hasInvoice \in BOOLEAN,
          lndResp \in LndResponses, clnResp \in ClnResponses :
         probe' = [fn |-> "isEligibleForRefund", status |-> status,
                   lightningCurrency |-> lightningCurrency, swapType |-> swapType,
                   hasInvoice |-> IF swapType = "Chain" THEN FALSE ELSE hasInvoice,
                   lndResp |-> lndResp, clnResp |-> clnResp,
                   result |-> isEligibleForRefund(
                                  status, lightningCurrency, swapType,
                                  IF swapType = "Chain" THEN FALSE ELSE hasInvoice,
                                  lndResp, clnResp)]
    /\ UNCHANGED <<signerVars, createVars, providerVars>>

NextEligible ==
    \/ IsEligibleForRefund

(***************************************************************************)
(* TimeoutDeltaProvider: the deltas of the pairs.                          *)
(***************************************************************************)
\* The timeoutDelta values a configuration may name: none, a legacy number that
\* is whole blocks on both chains and one that is not, and tables whose minimal
\* delta is below and above the maximal one, with a fraction of a BTC block, and
\* with no block at all.
TimeoutDeltaInputs ==
    {Undefined, Legacy(60), Legacy(5),
     Table(60, 60, 70), Table(70, 70, 60), Table(60, 5, 70), Table(0, 60, 70)}
\* What setTimeout is handed: a table, or the number Service hands over.
NewDeltaInputs == TimeoutDeltaInputs \ {Undefined}
DeltaFields == {"reverse", "swapMinimal", "swapMaximal"}

splitPairId(pairId) ==
    CASE pairId = "BTC/BTC" -> [base |-> "BTC", quote |-> "BTC"]
      [] pairId = "LTC/BTC" -> [base |-> "LTC", quote |-> "BTC"]
      [] OTHER -> [base |-> "ETH", quote |-> "BTC"]

\* newDeltas.reverse, .swapMinimal, .swapMaximal: a number has no such property.
DeltaMinutes(newDeltas, field) ==
    IF newDeltas.kind = "table"
        THEN [defined |-> TRUE, minutes |-> newDeltas[field]]
        ELSE [defined |-> FALSE, minutes |-> 0]

\* Mutation: the check that a delta is at least one block is left out.
InvalidBlocksFraction(symbol, m) ==
    IF m.defined THEN (m.minutes * 10) % getBlockTime(symbol) # 0 ELSE TRUE

\* calculateBlocks: the sanity check. An undefined number of minutes divides to
\* NaN, and NaN % 1 !== 0.
InvalidBlocks(symbol, m) ==
    IF ~m.defined THEN TRUE
    ELSE IF (m.minutes * 10) % getBlockTime(symbol) # 0 THEN TRUE
    ELSE (m.minutes * 10) \div getBlockTime(symbol) < 1

calculateBlocks(symbol, m) == (m.minutes * 10) \div getBlockTime(symbol)

convertToBlocks(symbol, newDeltas) ==
    [f \in DeltaFields |-> calculateBlocks(symbol, DeltaMinutes(newDeltas, f))]

\* minutesToBlocks throws INVALID_TIMEOUT_BLOCK_DELTA.
minutesToBlocksThrows(pair, newDeltas) ==
    \E symbol \in {splitPairId(pair).base, splitPairId(pair).quote}, f \in DeltaFields :
        InvalidBlocks(symbol, DeltaMinutes(newDeltas, f))

minutesToBlocks(pair, newDeltas) ==
    [defined |-> TRUE,
     base |-> convertToBlocks(splitPairId(pair).base, newDeltas),
     quote |-> convertToBlocks(splitPairId(pair).quote, newDeltas)]

\* init, compatibility mode: a legacy number becomes three equal values.
LegacyTable(timeoutDelta) ==
    IF timeoutDelta.kind = "number"
        THEN Table(timeoutDelta.minutes, timeoutDelta.minutes, timeoutDelta.minutes)
        ELSE timeoutDelta

\* The loop of init from pair i on: it ends at the first pair that throws.
RECURSIVE InitLoop(_, _, _)
InitLoop(i, deltas, config) ==
    IF i > Len(ConfigPairs) THEN [result |-> "ok", deltas |-> deltas, config |-> config]
    ELSE LET pairId == ConfigPairs[i]
             table == LegacyTable(config[pairId])
             converted == [config EXCEPT ![pairId] = table]
         IN  IF config[pairId].kind = "undefined"
                 THEN [result |-> "NO_TIMEOUT_DELTA", deltas |-> deltas, config |-> config]
             ELSE IF minutesToBlocksThrows(pairId, table)
                 THEN [result |-> "INVALID_TIMEOUT_BLOCK_DELTA", deltas |-> deltas,
                       config |-> converted]
             ELSE InitLoop(i + 1,
                           [deltas EXCEPT ![pairId] = minutesToBlocks(pairId, table)],
                           converted)

\* TimeoutDeltaProvider.init(config.pairs), called once by Service.init.
InitProvider ==
    /\ initialised = "none"
    /\ LET done == InitLoop(1, timeoutDeltas, configPairs)
       IN  /\ initialised' = done.result
           /\ timeoutDeltas' = done.deltas
           /\ configPairs' = done.config
    /\ UNCHANGED <<probe, configFile, setTimeoutResult, timeoutCall, signerVars, createVars>>

\* What is on disk after a write that failed: the old file, or a truncated one.
Truncated == [p \in ConfigPairIds |-> Undefined]
WriteOutcomes == {"written", "failed", "truncated"}

\* TimeoutDeltaProvider.setTimeout. newDeltas is a table of minutes, or the
\* number of minutes Service.updateTimeoutBlockDelta hands over.
SetTimeout ==
    /\ initialised = "ok"
    /\ \E pairId \in TimeoutPairInputs, newDeltas \in NewDeltaInputs :
         IF ~timeoutDeltas[pairId].defined
             THEN /\ setTimeoutResult' = [pairId |-> pairId, result |-> "PAIR_NOT_FOUND"]
                  /\ UNCHANGED <<timeoutDeltas, configPairs, configFile>>
         ELSE IF minutesToBlocksThrows(pairId, newDeltas)
             THEN /\ setTimeoutResult' =
                         [pairId |-> pairId, result |-> "INVALID_TIMEOUT_BLOCK_DELTA"]
                  /\ UNCHANGED <<timeoutDeltas, configPairs, configFile>>
         ELSE /\ timeoutDeltas' =
                     [timeoutDeltas EXCEPT ![pairId] = minutesToBlocks(pairId, newDeltas)]
              /\ configPairs' = [configPairs EXCEPT ![pairId] = newDeltas]
              /\ \E write \in WriteOutcomes :
                    /\ configFile' = CASE write = "written" -> configPairs'
                                       [] write = "failed" -> configFile
                                       [] OTHER -> Truncated
                    /\ setTimeoutResult' =
                           [pairId |-> pairId,
                            result |-> IF write = "written" THEN "ok" ELSE "WRITE_FAILED"]
    /\ UNCHANGED <<probe, initialised, timeoutCall, signerVars, createVars>>

(***************************************************************************)
(* TimeoutDeltaProvider.getTimeout.                                        *)
(***************************************************************************)
getChainCurrency(base, quote, orderSide, isReverse) ==
    IF isReverse THEN (IF orderSide = "BUY" THEN base ELSE quote)
    ELSE (IF orderSide = "BUY" THEN quote ELSE base)

getLightningCurrency(base, quote, orderSide, isReverse) ==
    IF isReverse THEN (IF orderSide = "BUY" THEN quote ELSE base)
    ELSE (IF orderSide = "BUY" THEN base ELSE quote)

Returned(call, blocks, usable) ==
    [call EXCEPT !.pc = "done",
                 !.result = [kind |-> "returned", blocks |-> blocks, usable |-> usable]]
Thrown(call, error) ==
    [call EXCEPT !.pc = "done", !.result = [kind |-> "thrown", error |-> error]]

\* Mutation: the sides of the pair are swapped.
ReverseDeltaSwapped(read, orderSide) ==
    IF orderSide = "BUY" THEN read.quote.reverse ELSE read.base.reverse

\* getTimeout of a reverse swap.
ReverseDelta(read, orderSide) ==
    IF orderSide = "BUY" THEN read.base.reverse ELSE read.quote.reverse

\* getTimeout up to its first await: the deltas of the pair are read here.
\* Calls read the map and share nothing else, so one call is followed at a time.
GetTimeout ==
    /\ initialised = "ok"
    /\ timeoutCall.pc \in {"idle", "done"}
    /\ \E pairId \in TimeoutPairInputs, orderSide \in {"BUY", "SELL"},
          isReverse \in BOOLEAN, invoice \in BOOLEAN :
         LET read == timeoutDeltas[pairId]
             call == [IdleTimeout EXCEPT !.pairId = pairId, !.orderSide = orderSide,
                                         !.isReverse = isReverse, !.invoice = invoice,
                                         !.timeouts = read]
             split == splitPairId(pairId)
         IN  timeoutCall' =
                 IF ~read.defined THEN Thrown(call, "PAIR_NOT_FOUND")
                 ELSE IF isReverse THEN Returned(call, ReverseDelta(read, orderSide), FALSE)
                 ELSE LET chainDeltas == IF orderSide = "BUY" THEN read.quote ELSE read.base
                          lightningDeltas == IF orderSide = "BUY" THEN read.base ELSE read.quote
                          submarine ==
                              [call EXCEPT
                                  !.chain = getChainCurrency(split.base, split.quote,
                                                             orderSide, FALSE),
                                  !.lightning = getLightningCurrency(split.base, split.quote,
                                                                     orderSide, FALSE),
                                  !.chainTimeout = chainDeltas,
                                  !.lightningTimeout = lightningDeltas]
                      IN  IF invoice THEN [submarine EXCEPT !.pc = "decode"]
                          ELSE Returned(submarine, chainDeltas.swapMinimal, TRUE)
    /\ UNCHANGED <<probe, timeoutDeltas, configPairs, configFile, initialised,
                   setTimeoutResult, signerVars, createVars>>

\* getTimeoutInvoice: decodePayReqRawResponse answers or fails; after it the
\* route query and the block height query are sent.
GetTimeoutDecode ==
    /\ timeoutCall.pc = "decode"
    /\ \E decoded \in BOOLEAN :
         timeoutCall' =
             IF decoded THEN [timeoutCall EXCEPT !.pc = "routes"]
             ELSE Thrown(timeoutCall, "DECODE_FAILED")
    /\ UNCHANGED <<probe, timeoutDeltas, configPairs, configFile, initialised,
                   setTimeoutResult, signerVars, createVars>>

noRoutes == 0 - 1
routingOffset == 60

\* What queryRoutes answers: an error, or a list of routes by their totalTimeLock.
RouteAnswers ==
    {<<>>} \cup {<<a>> : a \in BlockCounts} \cup {<<a, b>> : a \in BlockCounts, b \in BlockCounts}
\* The block height getBlockchainInfo reports for the Lightning currency's chain.
CurrentBlocks == {1, 2}

RECURSIVE HighestTimeLock(_, _)
HighestTimeLock(routesList, highest) ==
    IF routesList = <<>> THEN highest
    ELSE HighestTimeLock(Tail(routesList),
                         IF highest > Head(routesList) THEN highest ELSE Head(routesList))

\* checkRoutability: an error of queryRoutes is caught.
checkRoutability(answer) ==
    IF answer.error THEN noRoutes ELSE HighestTimeLock(answer.routesList, noRoutes)

\* Math.ceil(n / d) for d > 0 and n of either sign.
CeilSigned(n, d) == IF n >= 0 THEN Ceil(n, d) ELSE 0 - ((0 - n) \div d)

routeDeltaMinutes(lightningCurrency, routeTimeLock, blocks) ==
    CeilSigned((routeTimeLock - blocks) * getBlockTime(lightningCurrency), 10)

minTimeout(chainCurrency, lightningCurrency, routeTimeLock, blocks) ==
    Ceil((routeDeltaMinutes(lightningCurrency, routeTimeLock, blocks) + routingOffset) * 10,
         getBlockTime(chainCurrency))

\* Mutation: the minimal delta of the chain is not taken into account.
TimeoutCltvUnbounded(swapMinimal, least) == least

TimeoutCltv(swapMinimal, least) == IF swapMinimal > least THEN swapMinimal ELSE least

\* getTimeoutInvoice after Promise.all.
getTimeoutInvoice(call, routeTimeLock, blocks) ==
    LET least == minTimeout(call.chain, call.lightning, routeTimeLock, blocks)
    IN  IF routeTimeLock = noRoutes
            THEN Returned(call, call.chainTimeout.swapMaximal, FALSE)
        ELSE IF least > call.chainTimeout.swapMaximal
            THEN Thrown(call, "MIN_EXPIRY_TOO_BIG")
        ELSE Returned(call, TimeoutCltv(call.chainTimeout.swapMinimal, least), TRUE)

\* getTimeoutInvoice: both queries have answered.
GetTimeoutRoutes ==
    /\ timeoutCall.pc = "routes"
    /\ \E answer \in {[error |-> TRUE, routesList |-> <<>>]}
                        \cup {[error |-> FALSE, routesList |-> r] : r \in RouteAnswers},
          chainInfo \in {0} \cup CurrentBlocks :
         LET routeTimeLock == checkRoutability(answer)
             call == [timeoutCall EXCEPT !.routeTimeLock = routeTimeLock,
                                         !.blocks = chainInfo]
         IN  timeoutCall' =
                 IF chainInfo = 0 THEN Thrown(timeoutCall, "CHAIN_INFO_FAILED")
                 ELSE getTimeoutInvoice(call, routeTimeLock, chainInfo)
    /\ UNCHANGED <<probe, timeoutDeltas, configPairs, configFile, initialised,
                   setTimeoutResult, signerVars, createVars>>

NextTimeout ==
    \/ InitProvider
    \/ SetTimeout
    \/ GetTimeout
    \/ GetTimeoutDecode
    \/ GetTimeoutRoutes

\* The provider constructed over some configuration.
InitTimeoutConfigs ==
    /\ probe = NoProbe
    /\ configPairs \in [ConfigPairIds -> TimeoutDeltaInputs]
    /\ InitProviderState

\* The co-signer's side at rest: one Taproot reverse swap, no call.
InitSignerAtRest ==
    /\ swap = [type |-> "ReverseSubmarine", version |-> "Taproot",
               status |-> "TransactionMempool", preimageHash |-> Sha256(1),
               preimage |-> 0, hasInvoice |-> TRUE]
    /\ currency = [chainClient |-> TRUE,
                   lightning |-> [defined |-> TRUE, lndClient |-> TRUE, clnClient |-> FALSE]]
    /\ invoiceSettledWith = 0
    /\ submarineSwapLock = 0
    /\ reverseSwapLock = 0
    /\ calls = [c \in CallIds |-> IdleCall]

Init == InitSigner /\ InitCreate /\ InitTimeout

InitAtCreate == InitSignerAtRest /\ InitCreate /\ InitTimeout

SpecVerifyAmount == InitAtCreate /\ [][NextVerifyAmount]_vars

SpecConvert == InitAtCreate /\ [][NextConvert]_vars

SpecEligible == InitAtCreate /\ [][NextEligible]_vars

InitAtTimeout == InitSignerAtRest /\ InitCreate /\ InitTimeoutConfigs

SpecTimeout == InitAtTimeout /\ [][NextTimeout]_vars

SpecCreate == InitAtCreate /\ [][NextCreate]_vars

\* createReverseSwap calls alone, interleaved with each other and the switch.
NextReverse ==
    \/ \E c \in CreateIds : CreateReverseSwap(c)
    \/ \E c \in CreateIds : CreateReverseSwapFees(c)
    \/ \E c \in CreateIds : CreateReverseSwapManager(c)
    \/ \E c \in CreateIds : CreateReverseSwapPersist(c)
    \/ SetAllowReverseSwaps

SpecReverse == InitAtCreate /\ [][NextReverse]_vars

SpecSigner == Init /\ [][NextSigner]_vars

(***************************************************************************)
(* Properties of the co-signer.                                            *)
(***************************************************************************)
RefundCalls == {c \in CallIds : calls[c].op = "signRefund"}
ClaimCalls == {c \in CallIds : calls[c].op = "signReverseSwapClaim"}
Errored(c) == calls[c].pc = "done" /\ calls[c].result # "Signature"

\* A non-failed Lightning payment was reported to call c: LND's trackPayment
\* answered with a status other than FAILED, or CLN's checkPayStatus with a record.
NonFailedPaymentReported(c) ==
    calls[c].lnd \in {"IN_FLIGHT", "SUCCEEDED"} \/ calls[c].cln = "record"

\* The condition under which signRefund may sign, on what call c read.
RefundCondition(c) ==
    /\ swap.version = "Taproot"
    /\ calls[c].status \in {"TransactionFailed", "InvoiceFailedToPay", "SwapExpired",
                            "TransactionRefunded", "InvoiceExpired"}
    /\ ~currency.lightning.defined \/ ~NonFailedPaymentReported(c)

\* C1, as stated: signRefund on a swap it found returns a partial signature
\* only if the swap is Taproot, was read in a failed status and has no Lightning
\* side or no reported non-failed payment; in every other case it fails with
\* NOT_ELIGIBLE_FOR_COOPERATIVE_REFUND.
C1_AsStated ==
    \A c \in RefundCalls :
        calls[c].pc = "done" /\ calls[c].found =>
            /\ calls[c].result = "Signature" => RefundCondition(c)
            /\ ~RefundCondition(c) =>
                   calls[c].result = "NOT_ELIGIBLE_FOR_COOPERATIVE_REFUND"

\* C1, amended: as C1, where the failure with NOT_ELIGIBLE_FOR_COOPERATIVE_REFUND
\* is that of a swap whose chain currency has a UTXO chain client; without one
\* the call fails with CURRENCY_NOT_UTXO_BASED, and no signature is produced
\* in either case.
C1_RefundEligibility ==
    \A c \in RefundCalls :
        calls[c].pc = "done" /\ calls[c].found =>
            /\ calls[c].result = "Signature" => RefundCondition(c) /\ currency.chainClient
            /\ ~RefundCondition(c) /\ currency.chainClient =>
                   calls[c].result = "NOT_ELIGIBLE_FOR_COOPERATIVE_REFUND"
            /\ ~currency.chainClient => calls[c].result = "CURRENCY_NOT_UTXO_BASED"

C1_Witness ==
    \E c \in RefundCalls, d \in RefundCalls :
        /\ calls[c].result = "Signature" /\ calls[c].lnd = "FAILED"
        /\ calls[d].result = "NOT_ELIGIBLE_FOR_COOPERATIVE_REFUND"
        /\ calls[d].lnd = "IN_FLIGHT"

\* The reverse swap was read by call c as Taproot and in a claimable status.
ClaimCondition(c) ==
    /\ swap.version = "Taproot"
    /\ calls[c].status \in {"TransactionMempool", "TransactionConfirmed", "InvoiceSettled"}

WrongPreimage(c) == 2 * calls[c].preimage + 1 # swap.preimageHash

\* C2, as stated: every signReverseSwapClaim call on a reverse swap with a
\* preimage that does not hash to preimageHash fails with INCORRECT_PREIMAGE and
\* persists nothing; every stored preimage hashes to preimageHash; a call
\* rejected as not eligible stores no preimage.
C2_AsStated ==
    /\ \A c \in ClaimCalls :
         /\ calls[c].found /\ WrongPreimage(c) =>
                calls[c].result = "INCORRECT_PREIMAGE" /\ ~calls[c].wrotePreimage
         /\ calls[c].result = "NOT_ELIGIBLE_FOR_COOPERATIVE_CLAIM" => ~calls[c].wrotePreimage
    /\ swap.preimage # 0 => 2 * swap.preimage + 1 = swap.preimageHash

\* C2, amended: a call with a wrong preimage on a reverse swap that is eligible
\* (Taproot, claimable status) fails with INCORRECT_PREIMAGE; on any reverse swap
\* it fails and persists nothing (a swap that is not eligible is rejected with
\* NOT_ELIGIBLE_FOR_COOPERATIVE_CLAIM first); every stored preimage hashes to
\* preimageHash; a call rejected as not eligible stores no preimage.
C2_PreimageGuard ==
    /\ \A c \in ClaimCalls :
         /\ calls[c].found /\ WrongPreimage(c) =>
                /\ Errored(c) /\ ~calls[c].wrotePreimage
                /\ calls[c].result = IF ClaimCondition(c)
                                     THEN "INCORRECT_PREIMAGE"
                                     ELSE "NOT_ELIGIBLE_FOR_COOPERATIVE_CLAIM"
         /\ calls[c].result = "NOT_ELIGIBLE_FOR_COOPERATIVE_CLAIM" => ~calls[c].wrotePreimage
    /\ swap.preimage # 0 => 2 * swap.preimage + 1 = swap.preimageHash

C2_Witness ==
    \E c \in ClaimCalls, d \in ClaimCalls :
        /\ calls[c].result = "INCORRECT_PREIMAGE" /\ WrongPreimage(c)
        /\ calls[d].wrotePreimage /\ swap.preimage = calls[d].preimage

\* C3: signReverseSwapClaim signs only for a reverse swap read as Taproot and in
\* TransactionMempool, TransactionConfirmed or InvoiceSettled; for any other
\* version or status it fails with NOT_ELIGIBLE_FOR_COOPERATIVE_CLAIM, having
\* settled no invoice and persisted no preimage.
C3_ClaimEligibility ==
    \A c \in ClaimCalls :
        calls[c].found =>
            /\ calls[c].result = "Signature" => ClaimCondition(c)
            /\ ~ClaimCondition(c) =>
                   /\ calls[c].pc = "done"
                   /\ calls[c].result = "NOT_ELIGIBLE_FOR_COOPERATIVE_CLAIM"
                   /\ calls[c].settled = "no"
                   /\ ~calls[c].wrotePreimage

C3_Witness ==
    \E c \in ClaimCalls, d \in ClaimCalls :
        /\ calls[c].result = "NOT_ELIGIBLE_FOR_COOPERATIVE_CLAIM"
        /\ swap.version = "Taproot" /\ calls[c].status = "SwapExpired"
        /\ calls[d].result = "Signature" /\ calls[d].status = "TransactionConfirmed"

\* C4: a signRefund call whose checkPayStatus RPC threw fails with
\* NOT_ELIGIBLE_FOR_COOPERATIVE_REFUND, whatever LND reported.
C4_ClnErrorFailsClosed ==
    \A c \in RefundCalls :
        calls[c].cln = "error" =>
            calls[c].pc = "done" /\ calls[c].result = "NOT_ELIGIBLE_FOR_COOPERATIVE_REFUND"

C4_Witness ==
    \E c \in RefundCalls, d \in RefundCalls :
        /\ calls[c].cln = "error" /\ calls[c].lnd = "FAILED"
        /\ calls[d].cln = "error" /\ calls[d].lnd = "error"

\* C5: a co-signing call that has read the swap record and not yet returned
\* holds the nursery lock of the swap's kind.
C5_LockHeldFromRead ==
    \A c \in CallIds :
        calls[c].found /\ calls[c].pc # "done" =>
            IF calls[c].op = "signRefund"
            THEN submarineSwapLock = c
            ELSE reverseSwapLock = c

\* C6: a signReverseSwapClaim call that returned a signature read the status
\* InvoiceSettled or settled the invoice itself, the invoice is settled with its
\* preimage, and the preimage was persisted before the settlement was attempted;
\* a call whose settlement failed returns no signature.
C6_SettledBeforeSigned ==
    \A c \in ClaimCalls :
        /\ calls[c].result = "Signature" =>
               /\ calls[c].status = "InvoiceSettled" \/ calls[c].settled = "ok"
               /\ invoiceSettledWith = calls[c].preimage
        /\ calls[c].pc = "settle" \/ calls[c].settled # "no" =>
               calls[c].wrotePreimage /\ swap.preimage = calls[c].preimage
        /\ calls[c].settled = "failed" => Errored(c)

C6_Witness ==
    \E c \in ClaimCalls, d \in ClaimCalls :
        /\ calls[c].result = "Signature" /\ calls[c].settled = "ok"
        /\ calls[d].result = "Signature" /\ calls[d].status = "InvoiceSettled"

\* C7, as stated: a co-signing call that ended in an error has not changed the
\* swap's status, and has stored a preimage only if it was the correct one.
C7_AsStated ==
    \A c \in CallIds :
        Errored(c) =>
            /\ ~calls[c].statusChanged
            /\ calls[c].wrotePreimage => ~WrongPreimage(c)

\* C7, amended: a co-signing call that ended in an error has not changed the
\* swap's status, unless it is a signReverseSwapClaim call that settled the held
\* invoice, which set the status InvoiceSettled, and then failed to produce the
\* signature; it has stored a preimage only if it was the correct one, and a
\* signRefund call has changed nothing.
C7_ErrorFrame ==
    \A c \in CallIds :
        Errored(c) =>
            /\ calls[c].statusChanged =>
                   /\ calls[c].op = "signReverseSwapClaim"
                   /\ calls[c].settled = "ok"
                   /\ calls[c].result = "SIGN_FAILED"
                   /\ swap.status \in {"InvoiceSettled", "TransactionClaimed"}
            /\ calls[c].wrotePreimage =>
                   calls[c].op = "signReverseSwapClaim" /\ ~WrongPreimage(c)

C7_Witness ==
    \E c \in ClaimCalls :
        /\ calls[c].result = "SIGN_FAILED"
        /\ calls[c].statusChanged
        /\ calls[c].status = "TransactionMempool"
        /\ swap.status = "InvoiceSettled"

(***************************************************************************)
(* Properties of the creation path.                                        *)
(***************************************************************************)
\* The persisted swaps of the three kinds, each with its preimage hash.
PersistedSwaps ==
    {[kind |-> "Submarine", id |-> s.id, preimageHash |-> s.preimageHash] : s \in swaps}
    \cup {[kind |-> "ReverseSubmarine", id |-> s.id, preimageHash |-> s.preimageHash] :
             s \in reverseSwaps}
    \cup {[kind |-> "ChainToChain", id |-> s.id, preimageHash |-> s.preimageHash] :
             s \in chainSwaps}

\* C8: no two persisted swaps of any kind share a preimageHash, and no two
\* submarine swaps share an invoice.
C8_UniquePreimageHash ==
    /\ \A a \in PersistedSwaps, b \in PersistedSwaps :
           a # b => a.preimageHash # b.preimageHash
    /\ \A a \in swaps, b \in swaps : a # b => a.invoice # b.invoice

CreateFailed(c) == creates[c].pc = "done" /\ creates[c].result # "created"

\* C9: a creation call that returned an error has persisted no swap, issued
\* no Lightning invoice and broadcast no lockup transaction.
C9_FailedCreateMutatesNothing ==
    \A c \in CreateIds :
        CreateFailed(c) =>
            /\ c \notin issuedInvoices
            /\ c \notin lockups
            /\ \A s \in swaps \cup reverseSwaps \cup chainSwaps : s.id # c

\* A createReverseSwap call that got its fees.
ReverseQuoted(c) ==
    /\ creates[c].op = "createReverseSwap"
    /\ creates[c].pc \in {"manager", "persist", "done"}
    /\ creates[c].amount > 0

\* C10: every persisted reverse swap has
\* onchainAmount = floor(invoiceAmount * rate) - (baseFee + percentageFee) >= 1,
\* hence onchainAmount + baseFee + percentageFee <= invoiceAmount * rate; a call
\* whose computed amount is below 1 fails with ONCHAIN_AMOUNT_TOO_LOW, and no
\* invoice or lockup was made for it.
C10_ReverseOnchainAmount ==
    /\ \A r \in reverseSwaps :
         /\ r.onchainAmount =
                ((r.invoiceAmount * r.rate.num) \div r.rate.den) - (r.baseFee + r.fee)
         /\ r.onchainAmount >= 1
         /\ (r.onchainAmount + r.baseFee + r.fee) * r.rate.den
                <= r.invoiceAmount * r.rate.num
    /\ \A c \in CreateIds :
         ReverseQuoted(c) =>
            LET computed ==
                    ((creates[c].amount * creates[c].rate.num) \div creates[c].rate.den)
                        - (creates[c].baseFee + creates[c].percentageFee)
            IN  /\ computed < 1 <=> creates[c].result = "ONCHAIN_AMOUNT_TOO_LOW"
                /\ computed < 1 => c \notin issuedInvoices /\ c \notin lockups

C10_Witness ==
    /\ \E r \in reverseSwaps :
         /\ r.invoiceAmount = 3 /\ r.rate = [num |-> 1, den |-> 2]
         /\ r.onchainAmount = 1
    /\ \E c \in CreateIds :
         /\ creates[c].result = "ONCHAIN_AMOUNT_TOO_LOW"
         /\ creates[c].baseFee + creates[c].percentageFee > 0

(***************************************************************************)
(* Properties of verifyAmount.                                             *)
(***************************************************************************)
VerifyProbe == probe.fn = "verifyAmount" /\ Pairs[probe.pairId].limits # NoLimits

\* The amount the limits apply to, as a fraction: floor(amount * rate) for a
\* buy of a swap that is not reverse and for a sell of a reverse swap, and the
\* amount itself otherwise.
ComparedAmount ==
    IF (probe.type # "ReverseSubmarine") = (probe.orderSide = "BUY")
    THEN [num |-> (probe.amount.num * probe.rate.num)
                      \div (probe.amount.den * probe.rate.den),
          den |-> 1]
    ELSE probe.amount

\* C11, as stated: verifyAmount accepts iff minimal <= a <= maximal, fails with
\* EXCEED_MAXIMAL_AMOUNT when a is above the maximum and with
\* BENEATH_MINIMAL_AMOUNT when a is below the minimum.
C11_AsStated ==
    VerifyProbe =>
        LET a == ComparedAmount
            limits == Pairs[probe.pairId].limits
        IN  /\ probe.result = "ok" <=>
                   /\ limits.minimal * a.den <= a.num
                   /\ a.num <= limits.maximal * a.den
            /\ a.num > limits.maximal * a.den => probe.result = "EXCEED_MAXIMAL_AMOUNT"
            /\ a.num < limits.minimal * a.den => probe.result = "BENEATH_MINIMAL_AMOUNT"

\* C11, amended: verifyAmount accepts iff floor(a) <= maximal and
\* ceil(a) >= minimal, which for a whole a is minimal <= a <= maximal; it fails
\* with EXCEED_MAXIMAL_AMOUNT when floor(a) is above the maximum and with
\* BENEATH_MINIMAL_AMOUNT when ceil(a) is below the minimum.
C11_VerifyAmount ==
    VerifyProbe =>
        LET a == ComparedAmount
            lower == a.num \div a.den
            upper == (a.num + a.den - 1) \div a.den
            limits == Pairs[probe.pairId].limits
        IN  /\ probe.result = "ok" <=> lower <= limits.maximal /\ upper >= limits.minimal
            /\ lower = upper =>
                   (probe.result = "ok" <=>
                        limits.minimal <= lower /\ lower <= limits.maximal)
            /\ lower > limits.maximal => probe.result = "EXCEED_MAXIMAL_AMOUNT"
            /\ upper < limits.minimal => probe.result = "BENEATH_MINIMAL_AMOUNT"

C11_Witness ==
    /\ VerifyProbe
    /\ probe.type = "ReverseSubmarine" /\ probe.orderSide = "SELL"
    /\ probe.amount = [num |-> 5, den |-> 2] /\ probe.rate = [num |-> 3, den |-> 2]
    /\ probe.result = "ok"

(***************************************************************************)
(* Properties of the block conversions.                                    *)
(***************************************************************************)
\* C13: the limit getCltvLimit returns is convertBlocks(chain, lightning,
\* timeoutBlockHeight - currentBlock) - 2, and its length in wall time,
\* limit * blockTime[lightning], is strictly below the wall time left until
\* timeoutBlockHeight, (timeoutBlockHeight - currentBlock) * blockTime[chain].
C13_CltvLimitBelowTimeout ==
    probe.fn = "getCltvLimit" =>
        LET blocksLeft == probe.timeoutBlockHeight - probe.currentBlock
        IN  /\ probe.result =
                   convertBlocks(probe.chainSymbol, probe.lightningSymbol, blocksLeft) - 2
            /\ probe.result * getBlockTime(probe.lightningSymbol)
                   < blocksLeft * getBlockTime(probe.chainSymbol)

C13_Witness ==
    /\ probe.fn = "getCltvLimit"
    /\ probe.chainSymbol = "BTC" /\ probe.lightningSymbol = "LTC"
    /\ probe.timeoutBlockHeight - probe.currentBlock = 2
    /\ probe.result = 6

\* C14: convertBlocks(from, to, b) is the least integer n with
\* n * blockTime[to] >= b * blockTime[from].
C14_LeastCoveringBlocks ==
    probe.fn = "convertBlocks" =>
        /\ probe.result * getBlockTime(probe.toSymbol)
               >= probe.blocks * getBlockTime(probe.fromSymbol)
        /\ (probe.result - 1) * getBlockTime(probe.toSymbol)
               < probe.blocks * getBlockTime(probe.fromSymbol)

(***************************************************************************)
(* Properties of getTimeout.                                               *)
(***************************************************************************)
\* A getTimeout call for a submarine swap with an invoice whose route query
\* and block height query have both answered.
Probed ==
    /\ timeoutCall.pc = "done"
    /\ timeoutCall.timeouts.defined
    /\ ~timeoutCall.isReverse
    /\ timeoutCall.invoice
    /\ timeoutCall.blocks # 0

\* The least integer n with n * unit >= x.
LeastCovering(x, unit) ==
    CHOOSE n \in (0 - 100)..400 : n * unit >= x /\ (n - 1) * unit < x

\* minTimeout of the call, from the definition: block times are in tenths of
\* a minute.
ProbedMinTimeout ==
    LET routeDeltaBlocks == timeoutCall.routeTimeLock - timeoutCall.blocks
        minutes == LeastCovering(routeDeltaBlocks * getBlockTime(timeoutCall.lightning), 10)
    IN  LeastCovering((minutes + 60) * 10, getBlockTime(timeoutCall.chain))

\* C12: for a submarine swap with an invoice, getTimeout returns
\* (chainDeltas.swapMaximal, false) when the route probe yields no route;
\* otherwise, with routeDeltaBlocks = routeTimeLock - currentLnBlock and
\* minTimeout = ceil((ceil(routeDeltaBlocks * blockTime[ln]) + 60) / blockTime[chain]),
\* it fails with MIN_EXPIRY_TOO_BIG when minTimeout > chainDeltas.swapMaximal and
\* returns (max(chainDeltas.swapMinimal, minTimeout), true) when it is not.
C12_TimeoutOfInvoice ==
    Probed =>
        LET chainDeltas == timeoutCall.chainTimeout
        IN  IF timeoutCall.routeTimeLock = 0 - 1
                THEN timeoutCall.result =
                         [kind |-> "returned", blocks |-> chainDeltas.swapMaximal,
                          usable |-> FALSE]
            ELSE IF ProbedMinTimeout > chainDeltas.swapMaximal
                THEN timeoutCall.result = [kind |-> "thrown", error |-> "MIN_EXPIRY_TOO_BIG"]
            ELSE timeoutCall.result =
                     [kind |-> "returned",
                      blocks |-> IF chainDeltas.swapMinimal > ProbedMinTimeout
                                     THEN chainDeltas.swapMinimal ELSE ProbedMinTimeout,
                      usable |-> TRUE]

\* A route one LTC block ahead, 2.5 minutes, asks for 63 minutes: 7 BTC blocks.
C12_Witness ==
    /\ Probed
    /\ timeoutCall.pairId = "LTC/BTC" /\ timeoutCall.orderSide = "BUY"
    /\ timeoutCall.routeTimeLock - timeoutCall.blocks = 1
    /\ timeoutCall.chainTimeout.swapMinimal = 6
    /\ timeoutCall.result = [kind |-> "returned", blocks |-> 7, usable |-> TRUE]

\* C15: getTimeout for a known pair returns, for a reverse swap, the reverse
\* delta of the base side when side = BUY and of the quote side when side =
\* SELL, with usable = false; for a submarine swap without invoice it returns
\* swapMinimal of the on-chain side's deltas (quote when BUY, base when SELL)
\* with usable = true; for an unknown pair it fails with PAIR_NOT_FOUND.
C15_TimeoutOfPair ==
    timeoutCall.pc = "done" =>
        LET read == timeoutCall.timeouts
            buy == timeoutCall.orderSide = "BUY"
        IN  /\ read.defined <=> timeoutCall.pairId \in ConfigPairIds
            /\ ~read.defined =>
                   timeoutCall.result = [kind |-> "thrown", error |-> "PAIR_NOT_FOUND"]
            /\ (read.defined /\ timeoutCall.isReverse) =>
                   timeoutCall.result =
                       [kind |-> "returned",
                        blocks |-> IF buy THEN read.base.reverse ELSE read.quote.reverse,
                        usable |-> FALSE]
            /\ (read.defined /\ ~timeoutCall.isReverse /\ ~timeoutCall.invoice) =>
                   timeoutCall.result =
                       [kind |-> "returned",
                        blocks |-> IF buy THEN read.quote.swapMinimal
                                   ELSE read.base.swapMinimal,
                        usable |-> TRUE]

\* A reverse swap buying on LTC/BTC: 60 minutes are 24 LTC blocks, not 6 BTC blocks.
C15_Witness ==
    /\ timeoutCall.pc = "done"
    /\ timeoutCall.pairId = "LTC/BTC" /\ timeoutCall.orderSide = "BUY"
    /\ timeoutCall.isReverse
    /\ timeoutCall.timeouts.defined
    /\ timeoutCall.timeouts.quote.reverse = 6
    /\ timeoutCall.result = [kind |-> "returned", blocks |-> 24, usable |-> FALSE]

\* C20: whenever getTimeout for a submarine swap with an invoice returns
\* usable = true, the block count t it returns satisfies chainDeltas.swapMinimal
\* <= t <= chainDeltas.swapMaximal, for every configuration init or setTimeout
\* accepted.
C20_TimeoutWithinDeltas ==
    (/\ timeoutCall.pc = "done"
     /\ ~timeoutCall.isReverse
     /\ timeoutCall.invoice
     /\ timeoutCall.result.kind = "returned") =>
        (timeoutCall.result.usable =>
            /\ timeoutCall.chainTimeout.swapMinimal <= timeoutCall.result.blocks
            /\ timeoutCall.result.blocks <= timeoutCall.chainTimeout.swapMaximal)

(***************************************************************************)
(* Properties of the deltas the provider holds.                            *)
(***************************************************************************)
\* C16: setTimeout is all-or-nothing: after any sequence of setTimeout calls,
\* whether they succeed or fail (PAIR_NOT_FOUND, INVALID_TIMEOUT_BLOCK_DELTA,
\* or a failed write of the configuration file), the deltas getTimeout serves
\* for each pair are the block conversion of the timeoutDelta minutes stored
\* for that pair in the configuration on disk.
C16_ServedDeltasAreOnDisk ==
    initialised = "ok" =>
        \A p \in ConfigPairIds :
            /\ configFile[p].kind # "undefined"
            /\ ~minutesToBlocksThrows(p, LegacyTable(configFile[p]))
            /\ timeoutDeltas[p] = minutesToBlocks(p, LegacyTable(configFile[p]))

\* Every value held for pair p is at least one block and is exactly the
\* minutes of the configuration in memory on that side's chain.
HeldDeltasWhole(p) ==
    \A side \in {"base", "quote"}, f \in DeltaFields :
        /\ timeoutDeltas[p][side][f] >= 1
        /\ configPairs[p].kind = "table"
        /\ timeoutDeltas[p][side][f] * getBlockTime(splitPairId(p)[side])
               = configPairs[p][f] * 10

\* Minutes that are not a positive whole number of blocks on some side of p.
Unconvertible(p, minutes) ==
    \E side \in {"base", "quote"} :
        \/ (minutes * 10) % getBlockTime(splitPairId(p)[side]) # 0
        \/ minutes * 10 < getBlockTime(splitPairId(p)[side])

\* The pairs init converts before pair p.
PairsBefore(p) ==
    {ConfigPairs[j] : j \in {i \in 1..Len(ConfigPairs) :
                                 \E k \in (i + 1)..Len(ConfigPairs) : ConfigPairs[k] = p}}

\* The state part of C17.
HeldDeltas ==
    /\ \A p \in TimeoutPairInputs \ ConfigPairIds : ~timeoutDeltas[p].defined
    /\ \A p \in ConfigPairIds :
        /\ timeoutDeltas[p].defined => HeldDeltasWhole(p)
        \* a configuration that does not convert is rejected and stores nothing
        \* for its pair; the error is INVALID_TIMEOUT_BLOCK_DELTA when init came
        \* as far as this pair, that is, when the pairs before it are stored
        /\ (/\ initialised # "none"
            /\ configFile[p].kind # "undefined"
            /\ setTimeoutResult = NoSetTimeout
            /\ \E f \in DeltaFields :
                   Unconvertible(p, DeltaMinutes(LegacyTable(configFile[p]), f).minutes))
               => /\ ~timeoutDeltas[p].defined
                  /\ initialised # "ok"
                  /\ (\A q \in PairsBefore(p) : timeoutDeltas[q].defined)
                         => initialised = "INVALID_TIMEOUT_BLOCK_DELTA"
        \* a legacy number is stored as three equal values
        /\ (/\ initialised = "ok"
            /\ configFile[p].kind = "number"
            /\ setTimeoutResult = NoSetTimeout)
               => \A side \in {"base", "quote"}, f \in DeltaFields :
                      timeoutDeltas[p][side][f] * getBlockTime(splitPairId(p)[side])
                          = configFile[p].minutes * 10

\* The step part of C17: an update rejected with INVALID_TIMEOUT_BLOCK_DELTA
\* stores nothing.
RejectedStoresNothing ==
    (/\ setTimeoutResult' # setTimeoutResult
     /\ setTimeoutResult'.result = "INVALID_TIMEOUT_BLOCK_DELTA")
        => timeoutDeltas' = timeoutDeltas

SettlesOrSigns(c) ==
    /\ calls[c].op = "signReverseSwapClaim"
    /\ calls[c].pc \in {"acquire", "settle"}
    /\ calls'[c].pc = "done"
    /\ calls'[c].settled = "ok" \/ calls'[c].result = "Signature"

\* C18: for every interleaving of signReverseSwapClaim calls with each other
\* and with nursery transitions of the same reverse swap, the settlement of the
\* invoice and the claim signature made under reverseSwapLock happen only while
\* the status of the swap at that moment is TransactionMempool,
\* TransactionConfirmed or InvoiceSettled; once the swap is in SwapExpired or
\* TransactionRefunded its invoice is never settled and no claim is co-signed.
C18_SettledWhileClaimable ==
    [][\A c \in CallIds : SettlesOrSigns(c) => swap.status \in ClaimStatuses]_vars

\* C19: in the refund-eligibility check an error thrown by LND's
\* trackPayment is swallowed and counts as no payment found by LND: by itself
\* it never makes the swap ineligible, so a submarine swap in a failed status
\* whose only Lightning client is LND and whose trackPayment call errors is
\* eligible for a cooperative refund; a chain swap is always reported as
\* having no non-failed Lightning payment, and no Lightning client is asked.
C19_LndErrorSwallowed ==
    probe.fn = "isEligibleForRefund" =>
        LET ln == probe.lightningCurrency
            failed == probe.status \in FailedSwapUpdateEvents
        IN  /\ (/\ probe.swapType = "Submarine" /\ failed
                /\ ln.defined /\ ln.lndClient /\ probe.lndResp = "error")
                   => /\ probe.result.lnd = "error"
                      \* only CLN can make the swap ineligible
                      /\ ~probe.result.eligible => probe.result.cln \in {"record", "error"}
                      /\ ~ln.clnClient => probe.result.eligible
            /\ probe.swapType = "Chain"
                   => /\ probe.result.lnd = "notAsked" /\ probe.result.cln = "notAsked"
                      /\ probe.result.eligible = failed

C19_Witness ==
    /\ probe.fn = "isEligibleForRefund"
    /\ probe.swapType = "Submarine" /\ probe.status = "InvoiceFailedToPay"
    /\ probe.lightningCurrency = [defined |-> TRUE, lndClient |-> TRUE, clnClient |-> FALSE]
    /\ probe.lndResp = "error"
    /\ probe.result = [eligible |-> TRUE, lnd |-> "error", cln |-> "notAsked"]

=============================================================================
